---- MODULE Spec2Model ----
(***************************************************************************)
(* Model of MontyHall.py: an interactive Monty Hall session.  The state is *)
(* the position of the (single-threaded) program together with the locals  *)
(* of main, play_game, open_goat_doors and show_final.  Lines typed by the *)
(* player are sequences of one-character strings.                          *)
(***************************************************************************)
EXTENDS Integers, Sequences, FiniteSets, TLC

VARIABLES pc, user_input, num_doors, car_door, chosen_door, first_choice,
          closed_door, goat_doors, reveal_output, final_output, result,
          num_won, total_games, percent_won

vars == <<pc, user_input, num_doors, car_door, chosen_door, first_choice,
          closed_door, goat_doors, reveal_output, final_output, result,
          num_won, total_games, percent_won>>

MIN_DOORS == 3
MAX_DOORS == 10

\* Rounds played in one session before the player is made to answer "no".
MaxGames == 2

----------------------------------------------------------------------------
(* Lines the player may type.                                              *)

Str1(a) == <<a>>
Str2(a, b) == <<a, b>>
Str3(a, b, c) == <<a, b, c>>

\* The decimal line of a door number.
DoorLine(d) ==
    CASE d = 1 -> Str1("1") [] d = 2 -> Str1("2") [] d = 3 -> Str1("3")
      [] d = 4 -> Str1("4") [] d = 5 -> Str1("5") [] d = 6 -> Str1("6")
      [] d = 7 -> Str1("7") [] d = 8 -> Str1("8") [] d = 9 -> Str1("9")
      [] d = 10 -> Str2("1", "0")

\* Lines typed at an integer prompt: every door number 1..10, numbers just
\* outside the ranges, and lines int() accepts or rejects for their syntax.
IntLines ==
    { Str1("1"), Str1("2"), Str1("3"), Str1("4"), Str1("5"), Str1("6"),
      Str1("7"), Str1("8"), Str1("9"), Str2("1", "0"),
      Str1("0"), Str2("1", "1"), Str2("-", "1"), Str2("+", "2"),
      Str2(" ", "3"), Str3("0", "_", "4"), Str2("2", "_"),
      Str1("x"), <<>> }

\* Lines typed at the play-again prompt.
AnswerLines ==
    { Str3("y", "e", "s"), Str1("y"), Str2("n", "o"), Str1("n"),
      Str3("Y", "E", "S"), Str1("N"), Str1("x"), <<>> }

----------------------------------------------------------------------------
(* int(str): surrounding whitespace is stripped, one sign is allowed, and  *)
(* the rest must be decimal digits, single underscores allowed between     *)
(* digits.  Anything else raises ValueError.                               *)

Digits == {"0", "1", "2", "3", "4", "5", "6", "7", "8", "9"}

DigitVal(c) ==
    CASE c = "0" -> 0 [] c = "1" -> 1 [] c = "2" -> 2 [] c = "3" -> 3
      [] c = "4" -> 4 [] c = "5" -> 5 [] c = "6" -> 6 [] c = "7" -> 7
      [] c = "8" -> 8 [] c = "9" -> 9

RECURSIVE LStrip(_)
LStrip(s) == IF s # <<>> /\ Head(s) = " " THEN LStrip(Tail(s)) ELSE s

RECURSIVE RStrip(_)
RStrip(s) ==
    IF s # <<>> /\ s[Len(s)] = " " THEN RStrip(SubSeq(s, 1, Len(s) - 1))
    ELSE s

Strip(s) == RStrip(LStrip(s))

\* The line without its sign, and the sign's factor.
Unsigned(s) == IF s # <<>> /\ Head(s) \in {"+", "-"} THEN Tail(s) ELSE s
SignOf(s) == IF s # <<>> /\ Head(s) = "-" THEN -1 ELSE 1

\* Digits with single underscores between them.
IsDigitString(s) ==
    /\ s # <<>>
    /\ \A i \in 1..Len(s) : s[i] \in Digits \cup {"_"}
    /\ s[1] \in Digits
    /\ s[Len(s)] \in Digits
    /\ \A i \in 1..(Len(s) - 1) : ~(s[i] = "_" /\ s[i + 1] = "_")

RECURSIVE DigitsValue(_, _)
DigitsValue(s, acc) ==
    IF s = <<>> THEN acc
    ELSE IF Head(s) = "_" THEN DigitsValue(Tail(s), acc)
    ELSE DigitsValue(Tail(s), 10 * acc + DigitVal(Head(s)))

\* TRUE when int(s) raises ValueError.
RaisesValueError(s) == ~IsDigitString(Unsigned(Strip(s)))

\* int(s), for a line on which it does not raise.
ToInt(s) == SignOf(Strip(s)) * DigitsValue(Unsigned(Strip(s)), 0)

\* A criteria function is the set of the integers it accepts.
input_is_valid(line, criteria_fn) ==
    IF RaisesValueError(line) THEN FALSE ELSE ToInt(line) \in criteria_fn

\* str.lower() on the letters that occur in the typed lines.
LowerChar(c) ==
    CASE c = "Y" -> "y" [] c = "E" -> "e" [] c = "S" -> "s"
      [] c = "N" -> "n" [] c = "O" -> "o" [] OTHER -> c

Lower(s) == [i \in DOMAIN s |-> LowerChar(s[i])]

valid_yes == { Str3("y", "e", "s"), Str1("y") }
valid_no == { Str2("n", "o"), Str1("n") }

----------------------------------------------------------------------------
(* The criteria handed to get_user_input.                                  *)

NumDoorsCriteria == { num \in Int : num >= MIN_DOORS /\ num <= MAX_DOORS }

\* Variant: door numbers are taken to start at zero.
FirstDoorCriteria_FromZero == { num \in Int : num >= 0 /\ num <= num_doors }

FirstDoorCriteria == { num \in Int : num >= 1 /\ num <= num_doors }

\* Variant: the final prompt keeps the first prompt's criteria.
FinalDoorCriteria_AnyDoor == { num \in Int : num >= 1 /\ num <= num_doors }

FinalDoorCriteria ==
    { num \in Int : num = chosen_door \/ num = closed_door }

----------------------------------------------------------------------------
(* open_goat_doors and show_final.                                         *)

\* Variant: only the car door is kept out of the list.
GoatDoorsList_ChosenKept(chosen, car, n) ==
    LET invalid_doors == {car}
        IsGoat(i) == i \notin invalid_doors
    IN  SelectSeq([i \in 1..n |-> i], IsGoat)

\* Variant: the filter keeps the doors it should drop.
GoatDoorsList_MissingNot(chosen, car, n) ==
    LET invalid_doors == {chosen, car}
        IsGoat(i) == i \in invalid_doors
    IN  SelectSeq([i \in 1..n |-> i], IsGoat)

\* Variant: the range stops one door short.
GoatDoorsList_ShortRange(chosen, car, n) ==
    LET invalid_doors == {chosen, car}
        IsGoat(i) == i \notin invalid_doors
    IN  SelectSeq([i \in 1..(n - 1) |-> i], IsGoat)

\* [i for i in range(1, num_doors + 1) if i not in {chosen_door, car_door}]
GoatDoorsList(chosen, car, n) ==
    LET invalid_doors == {chosen, car}
        IsGoat(i) == i \notin invalid_doors
    IN  SelectSeq([i \in 1..n |-> i], IsGoat)

\* The values random.choice may return on a non-empty list.
RandomChoice(list) == { list[i] : i \in DOMAIN list }

\* Variant: the closed door is the car door only when the user chose it.
ClosedDoorChoices_Inverted(chosen, car, n) ==
    LET user_is_incorrect == chosen = car
    IN  IF user_is_incorrect THEN {car}
        ELSE RandomChoice(GoatDoorsList(chosen, car, n))

\* Variant: the closed door is always drawn among the goat doors.
ClosedDoorChoices_AlwaysRandom(chosen, car, n) ==
    RandomChoice(GoatDoorsList(chosen, car, n))

\* Variant: the host leaves any door but the chosen one closed.
ClosedDoorChoices_AnyOtherDoor(chosen, car, n) ==
    RandomChoice(GoatDoorsList(chosen, chosen, n))

\* The values closed_door may take; random.choice is evaluated only when
\* the user chose the car door.
ClosedDoorChoices(chosen, car, n) ==
    LET user_is_incorrect == chosen # car
    IN  IF user_is_incorrect THEN {car}
        ELSE RandomChoice(GoatDoorsList(chosen, car, n))

\* random.choice raises IndexError on an empty list.
ChoiceRaises(chosen, car, n) ==
    chosen = car /\ GoatDoorsList(chosen, car, n) = <<>>

RevealRow(out, door_num, chosen, closed) ==
    LET door_is_closed == door_num = closed \/ door_num = chosen
    IN  Append(out, IF door_is_closed THEN "X" ELSE "G")

RECURSIVE RevealLoop(_, _, _, _, _)
RevealLoop(out, door_num, n, chosen, closed) ==
    IF door_num > n THEN out
    ELSE RevealLoop(RevealRow(out, door_num, chosen, closed),
                    door_num + 1, n, chosen, closed)

\* Variant: the loop starts at door 1 again.
RevealOutput_LoopFromOne(chosen, closed, n) ==
    LET first == IF closed = 1 \/ chosen = 1 THEN "X" ELSE "G"
    IN  RevealLoop(<<first>>, 1, n, chosen, closed)

\* The row open_goat_doors prints, one mark per door.
RevealOutput(chosen, closed, n) ==
    LET first == IF closed = 1 \/ chosen = 1 THEN "X" ELSE "G"
    IN  RevealLoop(<<first>>, 2, n, chosen, closed)

RECURSIVE FinalLoop(_, _, _, _)
FinalLoop(out, door_num, n, car) ==
    IF door_num > n THEN out
    ELSE FinalLoop(Append(out, IF car = door_num THEN "C" ELSE "G"),
                   door_num + 1, n, car)

\* Variant: door 1 is always shown as a goat.
FinalOutput_FirstDoorGoat(car, n) ==
    LET first == "G"
    IN  FinalLoop(<<first>>, 2, n, car)

\* The row show_final prints.
FinalOutput(car, n) ==
    LET first == IF car = 1 THEN "C" ELSE "G"
    IN  FinalLoop(<<first>>, 2, n, car)

\* Variant: the comparison is negated.
ShowFinalWon_Negated(chosen, car) == IF chosen # car THEN TRUE ELSE FALSE

\* Variant: the losing branch also returns True.
ShowFinalWon_AlwaysTrue(chosen, car) == IF chosen = car THEN TRUE ELSE TRUE

\* The value show_final returns.
ShowFinalWon(chosen, car) == IF chosen = car THEN TRUE ELSE FALSE

\* Variant: the upper end is left out, as random.randrange does.
RandInt_HalfOpen(lo, hi) == lo..(hi - 1)

\* The values random.randint(lo, hi) may return: both ends included.
RandInt(lo, hi) == lo..hi

\* num_won / total_games raises ZeroDivisionError on a zero divisor.
DivisionRaises(total) == total = 0

\* num_won / total_games * 100, as the exact ratio the float approximates:
\* numerator and denominator.
PercentWon(won, total) == <<won * 100, total>>

\* Variant: every round counts as won.
BoolToInt_Always(b) == IF b THEN 1 ELSE 1

\* bool added to an int.
BoolToInt(b) == IF b THEN 1 ELSE 0

----------------------------------------------------------------------------
Init ==
    /\ pc = "get_num_doors"
    /\ user_input = <<>>
    /\ num_doors = 0
    /\ car_door = 0
    /\ chosen_door = 0
    /\ first_choice = 0
    /\ closed_door = 0
    /\ goat_doors = <<>>
    /\ reveal_output = <<>>
    /\ final_output = <<>>
    /\ result = FALSE
    /\ num_won = 0
    /\ total_games = 0
    /\ percent_won = <<>>

\* initialize(): the player types a line at the door-count prompt.
Initialize ==
    /\ pc = "get_num_doors"
    /\ \E line \in IntLines :
        /\ user_input' = line
        /\ IF input_is_valid(line, NumDoorsCriteria)
           THEN /\ num_doors' = ToInt(line)
                /\ num_won' = 0
                /\ total_games' = 0
                /\ pc' = "play_game"
           ELSE UNCHANGED <<num_doors, num_won, total_games, pc>>
    /\ UNCHANGED <<car_door, chosen_door, first_choice, closed_door,
                   goat_doors, reveal_output, final_output, result,
                   percent_won>>

\* play_game up to the first prompt: a new frame, and the car door is drawn.
StartRound ==
    /\ pc = "play_game"
    /\ \E door \in RandInt(1, num_doors) : car_door' = door
    /\ chosen_door' = 0
    /\ first_choice' = 0
    /\ closed_door' = 0
    /\ goat_doors' = <<>>
    /\ reveal_output' = <<>>
    /\ final_output' = <<>>
    /\ pc' = "first_choice"
    /\ UNCHANGED <<user_input, num_doors, result, num_won, total_games,
                   percent_won>>

\* open_goat_doors(chosen, car_door, num_doors), called with the first choice.
OpenGoatDoors(chosen) ==
    /\ goat_doors' = GoatDoorsList(chosen, car_door, num_doors)
    /\ IF ChoiceRaises(chosen, car_door, num_doors)
       THEN /\ pc' = "error"
            /\ UNCHANGED <<closed_door, reveal_output>>
       ELSE \E closed \in ClosedDoorChoices(chosen, car_door, num_doors) :
              /\ closed_door' = closed
              /\ reveal_output' = RevealOutput(chosen, closed, num_doors)
              /\ pc' = "revealed"

\* The player types a line at the first prompt; a valid door is revealed on.
FirstChoice ==
    /\ pc = "first_choice"
    /\ \E line \in IntLines :
        /\ user_input' = line
        /\ IF input_is_valid(line, FirstDoorCriteria)
           THEN /\ chosen_door' = ToInt(line)
                /\ first_choice' = ToInt(line)
                /\ OpenGoatDoors(ToInt(line))
           ELSE UNCHANGED <<chosen_door, first_choice, closed_door,
                            goat_doors, reveal_output, pc>>
    /\ UNCHANGED <<num_doors, car_door, final_output, result, num_won,
                   total_games, percent_won>>

\* Variant: control returns to the first prompt after the reveal.
AskFinal_BackToFirst ==
    /\ pc = "revealed"
    /\ pc' = "first_choice"
    /\ UNCHANGED <<user_input, num_doors, car_door, chosen_door,
                   first_choice, closed_door, goat_doors, reveal_output,
                   final_output, result, num_won, total_games, percent_won>>

\* Variant: the round is started again after the reveal.
AskFinal_Restart ==
    /\ pc = "revealed"
    /\ pc' = "play_game"
    /\ UNCHANGED <<user_input, num_doors, car_door, chosen_door,
                   first_choice, closed_door, goat_doors, reveal_output,
                   final_output, result, num_won, total_games, percent_won>>

\* The two remaining doors are announced and the final prompt is shown.
AskFinal ==
    /\ pc = "revealed"
    /\ pc' = "final_choice"
    /\ UNCHANGED <<user_input, num_doors, car_door, chosen_door,
                   first_choice, closed_door, goat_doors, reveal_output,
                   final_output, result, num_won, total_games, percent_won>>

\* The player types a line at the final prompt; a valid door is resolved.
FinalChoice ==
    /\ pc = "final_choice"
    /\ \E line \in IntLines :
        /\ user_input' = line
        /\ IF input_is_valid(line, FinalDoorCriteria)
           THEN /\ chosen_door' = ToInt(line)
                /\ final_output' = FinalOutput(car_door, num_doors)
                /\ result' = ShowFinalWon(ToInt(line), car_door)
                /\ pc' = "resolved"
           ELSE UNCHANGED <<chosen_door, final_output, result, pc>>
    /\ UNCHANGED <<num_doors, car_door, first_choice, closed_door,
                   goat_doors, reveal_output, num_won, total_games,
                   percent_won>>

\* Variant: the round is not counted.
Tally_NotCounted ==
    /\ pc = "resolved"
    /\ num_won' = num_won
    /\ total_games' = total_games
    /\ pc' = "play_again"
    /\ UNCHANGED <<user_input, num_doors, car_door, chosen_door,
                   first_choice, closed_door, goat_doors, reveal_output,
                   final_output, result, percent_won>>

\* main adds the round's result to its counters.
Tally ==
    /\ pc = "resolved"
    /\ num_won' = num_won + BoolToInt(result)
    /\ total_games' = total_games + 1
    /\ pc' = "play_again"
    /\ UNCHANGED <<user_input, num_doors, car_door, chosen_door,
                   first_choice, closed_door, goat_doors, reveal_output,
                   final_output, result, percent_won>>

\* main after the loop: the percentage is computed and printed; dividing by
\* zero raises ZeroDivisionError.
PrintStatistics ==
    IF DivisionRaises(total_games)
    THEN /\ pc' = "zero_division_error"
         /\ UNCHANGED percent_won
    ELSE /\ pc' = "done"
         /\ percent_won' = PercentWon(num_won, total_games)

\* Variant: "yes" asks for the number of doors again.
PlayAgain_Reinitialize ==
    /\ pc = "play_again"
    /\ \E line \in AnswerLines :
        LET answer == Lower(line)
        IN  /\ answer \in valid_yes => total_games < MaxGames
            /\ user_input' = line
            /\ IF answer \notin valid_yes /\ answer \notin valid_no
               THEN UNCHANGED <<pc, percent_won>>
               ELSE IF answer \in valid_yes
               THEN pc' = "get_num_doors" /\ UNCHANGED percent_won
               ELSE PrintStatistics
    /\ UNCHANGED <<num_doors, car_door, chosen_door, first_choice,
                   closed_door, goat_doors, reveal_output, final_output,
                   result, num_won, total_games>>

\* play_again(): the player answers; "yes" starts a round, "no" ends the
\* loop of main, which then prints the statistics.
PlayAgain ==
    /\ pc = "play_again"
    /\ \E line \in AnswerLines :
        LET answer == Lower(line)
        IN  /\ answer \in valid_yes => total_games < MaxGames
            /\ user_input' = line
            /\ IF answer \notin valid_yes /\ answer \notin valid_no
               THEN UNCHANGED <<pc, percent_won>>
               ELSE IF answer \in valid_yes
               THEN pc' = "play_game" /\ UNCHANGED percent_won
               ELSE PrintStatistics
    /\ UNCHANGED <<num_doors, car_door, chosen_door, first_choice,
                   closed_door, goat_doors, reveal_output, final_output,
                   result, num_won, total_games>>

Next ==
    \/ Initialize
    \/ StartRound
    \/ FirstChoice
    \/ AskFinal
    \/ FinalChoice
    \/ Tally
    \/ PlayAgain

Spec == Init /\ [][Next]_vars

----------------------------------------------------------------------------
(* Vocabulary of the properties.                                           *)

Doors == 1..num_doors

\* The doors a printed reveal row shows as opened goats.
OpenedDoors(row) == { d \in DOMAIN row : row[d] = "G" }

\* open_goat_doors has returned in the current round.
AfterReveal == pc \in {"revealed", "final_choice", "resolved"}

\* show_final has returned in the current round.
AfterResolve == pc = "resolved"

TypeOK ==
    /\ pc \in {"get_num_doors", "play_game", "first_choice", "revealed",
               "final_choice", "resolved", "play_again", "done", "error",
               "zero_division_error"}
    /\ num_doors \in {0} \cup (MIN_DOORS..MAX_DOORS)
    /\ car_door \in 0..MAX_DOORS
    /\ chosen_door \in 0..MAX_DOORS
    /\ closed_door \in 0..MAX_DOORS
    /\ result \in BOOLEAN
    /\ num_won \in Nat
    /\ total_games \in Nat

----------------------------------------------------------------------------
\* C1: after every reveal there is one closed alternative, it is a door
\* other than the chosen door, and the opened doors are exactly all doors
\* except the chosen door and the closed alternative: num_doors - 2 doors.
C1_RevealShape ==
    AfterReveal =>
        /\ closed_door \in Doors
        /\ closed_door # first_choice
        /\ Len(reveal_output) = num_doors
        /\ OpenedDoors(reveal_output) = Doors \ {first_choice, closed_door}
        /\ Cardinality(OpenedDoors(reveal_output)) = num_doors - 2

C1_Witness ==
    /\ pc = "revealed"
    /\ num_doors = MAX_DOORS
    /\ first_choice = 1
    /\ car_door = 1
    /\ closed_door = MAX_DOORS
    /\ Cardinality(OpenedDoors(reveal_output)) = MAX_DOORS - 2

\* C2: the doors the host opens never include the chosen door or the car
\* door.
C2_OpenedAreGoats ==
    AfterReveal =>
        /\ first_choice \notin OpenedDoors(reveal_output)
        /\ car_door \notin OpenedDoors(reveal_output)

C2_Witness ==
    /\ pc = "final_choice"
    /\ num_doors = 4
    /\ first_choice = 2
    /\ car_door = 4
    /\ OpenedDoors(reveal_output) = {1, 3}

\* C3: when the first choice is not the car door the closed alternative is
\* the car door, with no other outcome, so switching to it wins; with three
\* doors, car door 2 and first choice 1, door 2 stays closed and door 3 is
\* opened.
C3_WrongChoiceLeavesCar ==
    /\ (AfterReveal /\ first_choice # car_door) =>
            /\ closed_door = car_door
            /\ ClosedDoorChoices(first_choice, car_door, num_doors)
                 = {car_door}
    /\ (AfterResolve /\ first_choice # car_door
          /\ chosen_door = closed_door) => result = TRUE
    /\ (AfterReveal /\ num_doors = 3 /\ car_door = 2 /\ first_choice = 1) =>
            /\ closed_door = 2
            /\ OpenedDoors(reveal_output) = {3}

C3_Witness ==
    /\ pc = "resolved"
    /\ num_doors = 3
    /\ car_door = 2
    /\ first_choice = 1
    /\ closed_door = 2
    /\ OpenedDoors(reveal_output) = {3}
    /\ chosen_door = 2
    /\ result = TRUE

\* C4: when the first choice is the car door the closed alternative is a
\* goat door other than the chosen door, every such door is a possible
\* outcome and no other is; switching to it loses and staying wins.  With
\* five doors and car door 3 chosen, it is one of 1, 2, 4, 5 and the other
\* three are opened.
C4_RightChoiceLeavesGoat ==
    /\ (AfterReveal /\ first_choice = car_door) =>
            /\ closed_door \in Doors \ {first_choice}
            /\ closed_door # car_door
            /\ ClosedDoorChoices(first_choice, car_door, num_doors)
                 = Doors \ {first_choice}
            /\ closed_door \in { goat_doors[i] : i \in DOMAIN goat_doors }
    /\ (AfterResolve /\ first_choice = car_door) =>
            /\ chosen_door = closed_door => result = FALSE
            /\ chosen_door = first_choice => result = TRUE
    /\ (AfterReveal /\ num_doors = 5 /\ car_door = 3 /\ first_choice = 3) =>
            /\ closed_door \in {1, 2, 4, 5}
            /\ OpenedDoors(reveal_output) = {1, 2, 4, 5} \ {closed_door}

C4_Witness ==
    /\ pc = "resolved"
    /\ num_doors = 5
    /\ car_door = 3
    /\ first_choice = 3
    /\ closed_door = 5
    /\ OpenedDoors(reveal_output) = {1, 2, 4}
    /\ chosen_door = 5
    /\ result = FALSE

----------------------------------------------------------------------------
\* C5: show_final reports a win exactly when the final choice is the car
\* door, for every pair of doors, and that is the value play_game returns
\* for the round.
C5_WonIffFinalIsCar ==
    /\ AfterResolve => result = (chosen_door = car_door)
    /\ \A final \in Doors : \A car \in Doors :
            ShowFinalWon(final, car) = (final = car)

C5_Witness ==
    /\ pc = "resolved"
    /\ num_doors = 4
    /\ chosen_door = 2
    /\ car_door = 3
    /\ result = FALSE

\* C6: in a resolved round the car door is one of the two doors left
\* closed; switching wins exactly when the first choice was wrong and
\* staying wins exactly when it was right, so exactly one strategy wins.
C6_ExactlyOneStrategyWins ==
    /\ AfterReveal =>
            /\ car_door \in {first_choice, closed_door}
            /\ ShowFinalWon(closed_door, car_door)
                 # ShowFinalWon(first_choice, car_door)
    /\ AfterResolve =>
            /\ chosen_door = closed_door =>
                    (result <=> first_choice # car_door)
            /\ chosen_door = first_choice =>
                    (result <=> first_choice = car_door)

C6_Witness ==
    /\ pc = "resolved"
    /\ num_doors = 6
    /\ first_choice = 4
    /\ car_door = 4
    /\ closed_door = 6
    /\ chosen_door = 4
    /\ result = TRUE

\* The stage of the round the program is in.
Stage ==
    CASE pc = "first_choice" -> "AWAITING_FIRST_CHOICE"
      [] pc = "revealed" -> "REVEALED"
      [] pc = "final_choice" -> "AWAITING_FINAL_CHOICE"
      [] pc = "resolved" -> "RESOLVED"
      [] OTHER -> "NO_ROUND"

\* C7: a round moves only along AWAITING_FIRST_CHOICE -> REVEALED ->
\* AWAITING_FINAL_CHOICE -> RESOLVED.  The reveal follows a valid first
\* choice, the resolution follows the reveal and a valid final choice, and
\* RESOLVED ends the round: the next round starts at AWAITING_FIRST_CHOICE.
C7_LinearRound ==
    [][ /\ Stage = "AWAITING_FIRST_CHOICE" =>
                Stage' \in {"AWAITING_FIRST_CHOICE", "REVEALED"}
        /\ Stage = "REVEALED" => Stage' = "AWAITING_FINAL_CHOICE"
        /\ Stage = "AWAITING_FINAL_CHOICE" =>
                Stage' \in {"AWAITING_FINAL_CHOICE", "RESOLVED"}
        /\ Stage = "RESOLVED" =>
                Stage' = "NO_ROUND" /\ total_games' = total_games + 1
        /\ Stage = "NO_ROUND" =>
                Stage' \in {"NO_ROUND", "AWAITING_FIRST_CHOICE"}
        /\ (Stage # "REVEALED" /\ Stage' = "REVEALED") =>
                /\ ~RaisesValueError(user_input')
                /\ chosen_door' = ToInt(user_input')
                /\ chosen_door' \in Doors
                /\ reveal_output = <<>>
                /\ reveal_output' # <<>>
        /\ (Stage # "RESOLVED" /\ Stage' = "RESOLVED") =>
                /\ ~RaisesValueError(user_input')
                /\ chosen_door' = ToInt(user_input')
                /\ chosen_door' \in {first_choice, closed_door}
                /\ reveal_output # <<>>
                /\ final_output = <<>>
                /\ final_output' # <<>>
        /\ (Stage = "NO_ROUND" /\ Stage' = "AWAITING_FIRST_CHOICE") =>
                /\ chosen_door' = 0
                /\ reveal_output' = <<>>
                /\ final_output' = <<>>
      ]_vars

C7_Witness ==
    /\ pc = "first_choice"
    /\ total_games = 1
    /\ chosen_door = 0
    /\ car_door \in Doors

\* C8: the final choice that is resolved is the first choice or the closed
\* alternative; any other line typed at the final prompt, an opened door
\* included, is rejected and leaves the program at the prompt.
C8_FinalChoiceRestricted ==
    [][ pc = "final_choice" =>
          LET accepted == /\ ~RaisesValueError(user_input')
                          /\ ToInt(user_input')
                               \in {first_choice, closed_door}
          IN  /\ accepted =>
                    /\ pc' = "resolved"
                    /\ chosen_door' = ToInt(user_input')
                    /\ chosen_door' \notin OpenedDoors(reveal_output)
              /\ ~accepted =>
                    /\ pc' = "final_choice"
                    /\ UNCHANGED <<chosen_door, final_output, result>>
              /\ pc' = "resolved" =>
                    chosen_door' \in {first_choice, closed_door}
      ]_vars

C8_Witness ==
    /\ pc = "final_choice"
    /\ num_doors = 5
    /\ first_choice = 1
    /\ closed_door = 2
    /\ user_input = Str1("4")
    /\ 4 \in OpenedDoors(reveal_output)

\* The (car door, first choice) pairs on which switching to the closed
\* alternative wins whatever door the host leaves closed, and those on
\* which it wins for some door the host may leave closed.
SwitchAlwaysWins(n) ==
    { pr \in (1..n) \X (1..n) :
        \A closed \in ClosedDoorChoices(pr[2], pr[1], n) :
            ShowFinalWon(closed, pr[1]) }

SwitchMayWin(n) ==
    { pr \in (1..n) \X (1..n) :
        \E closed \in ClosedDoorChoices(pr[2], pr[1], n) :
            ShowFinalWon(closed, pr[1]) }

\* C9: of the num_doors * num_doors (car door, first choice) pairs, always
\* switching wins on exactly num_doors * (num_doors - 1), whatever the host
\* leaves closed: a rate of (N - 1) / N, and 6 of 9 pairs for three doors.
C9_SwitchWinCount ==
    /\ num_doors # 0 =>
            /\ Cardinality(SwitchAlwaysWins(num_doors))
                 = num_doors * (num_doors - 1)
            /\ SwitchMayWin(num_doors) = SwitchAlwaysWins(num_doors)
            /\ Cardinality(SwitchAlwaysWins(num_doors)) * num_doors
                 = (num_doors - 1) * Cardinality(Doors \X Doors)
    /\ num_doors = 3 =>
            /\ Cardinality(SwitchAlwaysWins(3)) = 6
            /\ Cardinality(Doors \X Doors) = 9
    /\ (AfterResolve /\ chosen_door = closed_door) =>
            (result <=> <<car_door, first_choice>>
                          \in SwitchAlwaysWins(num_doors))

C9_Witness ==
    /\ pc = "resolved"
    /\ num_doors = 3
    /\ first_choice = 3
    /\ car_door = 1
    /\ chosen_door = closed_door
    /\ result = TRUE

\* C10: the session counters change only when a round has resolved; that
\* step adds one to total_games and adds to num_won one for a won round and
\* nothing otherwise; neither counter decreases and
\* 0 <= num_won <= total_games in every state.
C10_StatsFollowRounds ==
    [][ /\ <<num_won, total_games>>' # <<num_won, total_games>> =>
                pc = "resolved"
        /\ pc = "resolved" =>
                /\ total_games' = total_games + 1
                /\ num_won' = num_won
                     + (IF chosen_door = car_door THEN 1 ELSE 0)
        /\ num_won' >= num_won
        /\ total_games' >= total_games
        /\ 0 <= num_won /\ num_won <= total_games
        /\ 0 <= num_won' /\ num_won' <= total_games'
      ]_vars

C10_Witness ==
    /\ pc = "play_again"
    /\ total_games = 2
    /\ num_won = 1

----------------------------------------------------------------------------
\* Everything but the line last read.
RoundState ==
    <<pc, num_doors, car_door, chosen_door, first_choice, closed_door,
      goat_doors, reveal_output, final_output, result, num_won, total_games,
      percent_won>>

\* Typed lines that are not a number, or not a number of a door.
NotADoorLines ==
    { Str1("x"), <<>>, Str2("2", "_"), Str1("0"), Str2("1", "1"),
      Str2("-", "1") }

\* Typed lines that are not a door count in 3..10.
BadDoorCountLines ==
    NotADoorLines \cup { Str1("1"), Str1("2"), Str2("+", "2") }

\* Typed lines that are not a door in 1..num_doors.
BadFirstChoiceLines ==
    NotADoorLines \cup { DoorLine(d) : d \in (num_doors + 1)..MAX_DOORS }

\* C11: whatever is typed, the door count of a round is in 3..10 and the
\* first choice given to the reveal is in 1..num_doors; a line that is not
\* a number or is out of range leaves the program at the same prompt with
\* the car door, the stage and the session counters unchanged.
C11_InvalidInputNeverAccepted ==
    [][ /\ pc = "get_num_doors" =>
              \/ /\ pc' = "play_game"
                 /\ num_doors' \in MIN_DOORS..MAX_DOORS
                 /\ user_input' \notin BadDoorCountLines
              \/ UNCHANGED RoundState
        /\ pc = "first_choice" =>
              \/ /\ pc' = "revealed"
                 /\ first_choice' \in Doors
                 /\ chosen_door' = first_choice'
                 /\ user_input' \notin BadFirstChoiceLines
              \/ UNCHANGED RoundState
        /\ pc = "final_choice" =>
              \/ pc' = "resolved" /\ user_input' \notin NotADoorLines
              \/ UNCHANGED RoundState
        /\ pc' # "get_num_doors" => num_doors' \in MIN_DOORS..MAX_DOORS
        /\ AfterReveal' => first_choice' \in 1..num_doors'
      ]_vars

C11_Witness ==
    /\ pc = "first_choice"
    /\ num_doors = MAX_DOORS
    /\ user_input = Str2("1", "1")
    /\ car_door \in Doors
    /\ first_choice = 0
    /\ total_games = 0

----------------------------------------------------------------------------
\* C12: the car door drawn for a round is a door in 1..num_doors, every
\* door from 1 to num_doors may be drawn, and it is drawn before any first
\* choice exists; whatever was drawn, every door may then be chosen first.
C12_PrizeDoorDraw ==
    /\ pc = "play_game" =>
            /\ RandInt(1, num_doors) = Doors
            /\ \A d \in Doors : ENABLED (StartRound /\ car_door' = d)
    /\ pc \in {"first_choice", "revealed", "final_choice", "resolved"} =>
            car_door \in Doors
    /\ pc = "first_choice" =>
            /\ chosen_door = 0
            /\ first_choice = 0
            /\ \A d \in Doors : ENABLED (FirstChoice /\ first_choice' = d)

C12_Witness ==
    /\ pc = "first_choice"
    /\ num_doors = MAX_DOORS
    /\ car_door = MAX_DOORS
    /\ first_choice = 0

----------------------------------------------------------------------------
\* C13, as stated: with three doors exactly one goat door is a candidate,
\* whether or not the first choice is the car door, so the closed
\* alternative has a single possible value in both cases.
C13_SingleCandidateInBothCases ==
    (AfterReveal /\ num_doors = 3) =>
        /\ Len(goat_doors) = 1
        /\ Cardinality(ClosedDoorChoices(first_choice, car_door, 3)) = 1

\* C13, amended: with three doors exactly one goat door is a candidate
\* when the first choice is not the car door, and the closed alternative is
\* then the car door; when the first choice is the car door the two other
\* doors are both candidates and either may be left closed.
C13_ThreeDoorCandidates ==
    /\ (AfterReveal /\ num_doors = 3 /\ first_choice # car_door) =>
            /\ Len(goat_doors) = 1
            /\ ClosedDoorChoices(first_choice, car_door, 3) = {car_door}
            /\ closed_door = car_door
    /\ (AfterReveal /\ num_doors = 3 /\ first_choice = car_door) =>
            /\ Len(goat_doors) = 2
            /\ ClosedDoorChoices(first_choice, car_door, 3)
                 = Doors \ {first_choice}
            /\ closed_door \in Doors \ {first_choice}
    /\ (pc = "first_choice" /\ num_doors = 3) =>
            \A d \in Doors \ {car_door} :
                ENABLED (FirstChoice /\ first_choice' = car_door
                          /\ closed_door' = d)

C13_Witness ==
    /\ pc = "revealed"
    /\ num_doors = 3
    /\ first_choice = 2
    /\ car_door = 2
    /\ closed_door = 3
    /\ goat_doors = <<1, 3>>
    /\ OpenedDoors(reveal_output) = {1}

----------------------------------------------------------------------------
\* C14: open_goat_doors never fails on valid doors.  The closed door is
\* drawn from the goat doors only when the first choice is the car door,
\* the list drawn from then holds num_doors - 1 doors, and the IndexError
\* of a draw from an empty list is never raised.
C14_RevealNeverFails ==
    /\ pc # "error"
    /\ pc = "first_choice" =>
            \A d \in Doors : ~ChoiceRaises(d, car_door, num_doors)
    /\ (AfterReveal /\ first_choice = car_door) =>
            /\ Len(goat_doors) = num_doors - 1
            /\ goat_doors # <<>>
            /\ closed_door \in RandomChoice(goat_doors)
    /\ (AfterReveal /\ first_choice # car_door) =>
            /\ closed_door = car_door
            /\ closed_door \notin RandomChoice(goat_doors)

C14_Witness ==
    /\ pc = "final_choice"
    /\ num_doors = 3
    /\ first_choice = 1
    /\ car_door = 1
    /\ Len(goat_doors) = 2
    /\ closed_door = 2

----------------------------------------------------------------------------
(* The player eventually types an accepted line at each prompt, so the    *)
(* program is not at a prompt for ever, and the program takes the steps   *)
(* that wait for no input.                                                *)

\* Where the program waits for a line.
Prompts == {"get_num_doors", "first_choice", "final_choice", "play_again"}

FairSpec ==
    /\ Spec
    /\ WF_vars(StartRound)
    /\ WF_vars(AskFinal)
    /\ WF_vars(Tally)
    /\ []<>(pc \notin Prompts)

\* Lines that are neither yes nor no.
NotAnAnswerLines == { Str1("x"), <<>> }

\* Lines that mean no.
NoLines == { Str2("n", "o"), Str1("n"), Str1("N") }

\* C15: when the player eventually types an accepted line at each prompt,
\* every started round reaches RESOLVED; the session ends with the
\* statistics at the step on which the player answers no; a line that is
\* not accepted leaves the program at the same prompt.
C15_RoundsResolveSessionEnds ==
    /\ (pc \in {"play_game", "first_choice", "revealed", "final_choice"})
         ~> (pc = "resolved")
    /\ [][ /\ (pc = "play_again" /\ user_input' \in NoLines) =>
                 /\ pc' = "done"
                 /\ percent_won' # <<>>
           /\ (pc = "play_again" /\ user_input' \in NotAnAnswerLines) =>
                 UNCHANGED RoundState
           /\ (pc = "first_choice" /\ user_input' \in BadFirstChoiceLines) =>
                 UNCHANGED RoundState
           /\ (pc = "final_choice" /\ user_input' \in NotADoorLines) =>
                 UNCHANGED RoundState
           /\ (pc = "get_num_doors" /\ user_input' \in BadDoorCountLines) =>
                 UNCHANGED RoundState
           /\ pc' = "done" => (pc = "play_again" /\ user_input' \in NoLines)
          ]_vars

C15_Witness ==
    /\ pc = "done"
    /\ total_games = 2
    /\ num_won = 2
    /\ percent_won = <<200, 2>>
    /\ user_input = Str1("N")

----------------------------------------------------------------------------
\* C16: the car door is drawn at the start of a round and by no other
\* step; the first choice, the reveal, the final choice and the resolution
\* leave it unchanged, so the door resolved against is the door the reveal
\* was computed from.  The door count is set once, before the first round,
\* and is the same in every round of the session.
C16_PrizeDoorFixedInRound ==
    [][ /\ car_door' # car_door =>
              (pc = "play_game" /\ pc' = "first_choice")
        /\ pc = "play_game" =>
              (pc' = "first_choice" /\ car_door' \in Doors)
        /\ pc \in {"first_choice", "revealed", "final_choice", "resolved"} =>
              car_door' = car_door
        /\ (pc = "final_choice" /\ pc' = "resolved") =>
              /\ result' = (chosen_door' = car_door)
              /\ car_door \notin OpenedDoors(reveal_output)
              /\ closed_door
                   \in ClosedDoorChoices(first_choice, car_door, num_doors)
        /\ num_doors' # num_doors =>
              (pc = "get_num_doors" /\ num_doors = 0 /\ total_games = 0)
        /\ pc # "get_num_doors" => num_doors' = num_doors
      ]_vars

C16_Witness ==
    /\ pc = "resolved"
    /\ total_games = 1
    /\ num_doors = 7
    /\ car_door = 7
    /\ first_choice = 7
    /\ chosen_door = 7
    /\ result = TRUE

----------------------------------------------------------------------------
\* C17: the row printed at resolution has one mark per door, each the car
\* or a goat, and the car mark is on the car door and nowhere else,
\* whatever was chosen, opened or left closed; every door shown as an
\* opened goat by the reveal is marked goat in it.
C17_FullLayout ==
    AfterResolve =>
        /\ Len(final_output) = num_doors
        /\ \A d \in Doors : final_output[d] \in {"C", "G"}
        /\ { d \in Doors : final_output[d] = "C" } = {car_door}
        /\ \A d \in OpenedDoors(reveal_output) : final_output[d] = "G"

C17_Witness ==
    /\ pc = "resolved"
    /\ num_doors = 4
    /\ car_door = 1
    /\ first_choice = 2
    /\ OpenedDoors(reveal_output) = {3, 4}
    /\ final_output = <<"C", "G", "G", "G">>

\* C18: when the percentage is computed at least one round has been
\* played: the first round is tallied before the play-again prompt is
\* shown, so the divisor total_games is at least 1 and ZeroDivisionError
\* is never raised.
C18_NoDivisionByZero ==
    /\ pc # "zero_division_error"
    /\ pc = "play_again" =>
            (total_games >= 1 /\ ~DivisionRaises(total_games))
    /\ pc = "done" =>
            /\ total_games >= 1
            /\ percent_won = <<num_won * 100, total_games>>
            /\ percent_won[2] # 0

C18_Witness ==
    /\ pc = "done"
    /\ total_games = 1
    /\ num_won = 0
    /\ percent_won = <<0, 1>>

====
